---- MODULE Spec2Model ----
(***************************************************************************)
(* The fake-user web service (app.py) and its benchmark driver             *)
(* (benchmark.py) as a state machine.                                      *)
(*                                                                         *)
(* A request occupies a slot r.  Its handler runs step by step: every step *)
(* that can raise is an action of its own, so that the position of the     *)
(* range validation relative to the database call, and the connections     *)
(* left behind by a raised exception, are visible in the state.            *)
(* The database and its stored procedure are the environment: a connect    *)
(* or an execute either succeeds or raises, and a successful procedure     *)
(* call yields any sequence of rows.                                       *)
(* The 'timestamp' field of the 200 response is not modelled.              *)
(***************************************************************************)
EXTENDS Integers, Sequences, FiniteSets, TLC

VARIABLES
    \* ---- one entry per request slot: the handler's frame
    pc,            \* position of the handler
    route,         \* "/", "/api/generate" or "/health"
    body,          \* the JSON body of the request (request.json)
    locale, seed, batch_index, batch_size,   \* locals of api_generate
    conn,          \* local 'conn': id of the connection held, 0 if none
    users,         \* local 'users' / 'locales': the rows fetched
    resp,          \* the response returned to the client
    \* ---- the process and the database server
    DATABASE_URL,  \* os.environ["DATABASE_URL"], "" when not set
    connections,   \* the open connections: records [id, owner]
    nextConn,      \* id of the next connection the server hands out
    \* ---- history of the request being handled in each slot
    started,       \* number of requests received so far
    opened,        \* connections opened by the request
    dbCalls,       \* statements the request sent: records [conn, stmt, args]
    answer,        \* what the database answered to the request
    \* ---- run_benchmark
    bpc, user_counts, idx, results, clock, start, bconn, bopened, blog, berror

webvars == <<pc, route, body, locale, seed, batch_index, batch_size, conn, users,
             resp, DATABASE_URL, connections, nextConn, started, opened, dbCalls,
             answer>>
benchvars == <<bpc, user_counts, idx, results, clock, start, bconn, bopened, blog,
               berror>>
vars == <<webvars, benchvars>>

(***************************************************************************)
(* Bounds                                                                  *)
(***************************************************************************)
NumReq == 2          \* request slots handled concurrently (SpecConc)
MaxRequests == 2     \* requests received in one behaviour
MaxRows == 2         \* rows one procedure call yields
MaxCounts == 2       \* length of the benchmark's list of batch sizes
MaxTick == 2         \* clock ticks that pass between two readings of the clock

Req == 1..NumReq

(***************************************************************************)
(* Python integers have no width, and the seed's upper limit is the        *)
(* largest 32-bit integer: an integer n is held as two digits in base      *)
(* 65536, n = hi * 65536 + lo with 0 <= lo < 65536, so that 2147483648 is  *)
(* a value of the model.                                                   *)
(***************************************************************************)
Big(n) == [hi |-> n \div 65536, lo |-> n % 65536]
Succ(b) == IF b.lo = 65535 THEN [hi |-> b.hi + 1, lo |-> 0] ELSE [b EXCEPT !.lo = @ + 1]
\* a < b
Less(a, b) == a.hi < b.hi \/ (a.hi = b.hi /\ a.lo < b.lo)
\* the value of a small integer
Small(b) == b.hi * 65536 + b.lo

(***************************************************************************)
(* JSON values of the request body.  v is the number for "int", the number *)
(* a numeric string spells for "numstr", and tenths for "float".           *)
(***************************************************************************)
Absent == [t |-> "absent", v |-> Big(0)]
Null == [t |-> "null", v |-> Big(0)]
JInt(n) == [t |-> "int", v |-> Big(n)]
JNumStr(n) == [t |-> "numstr", v |-> Big(n)]
JBadStr == [t |-> "str", v |-> Big(0)]
JFloat(tenths) == [t |-> "float", v |-> Big(tenths)]

NoLocale == "<absent>"

MAX_SEED == Big(2147483647)
MIN_BATCH_SIZE == Big(1)
MAX_BATCH_SIZE == Big(100)
DEFAULT_LOCALE == "en_US"
DEFAULT_SEED == JInt(12345)
DEFAULT_BATCH_INDEX == JInt(0)
DEFAULT_BATCH_SIZE == JInt(10)

BatchSizeError == "Batch size must be between 1 and 100"
SeedError == "Seed must be between 0 and 2147483647"

\* data.get(key, default): the default only when the key is absent
Get(value, default) == IF value = Absent THEN default ELSE value
GetLocale(value, default) == IF value = NoLocale THEN default ELSE value

\* int(x): what it raises, "" when it returns
IntError(x) ==
    CASE x.t = "null" -> "TypeError"
      [] x.t = "str" -> "ValueError"
      [] OTHER -> ""

\* int(x): an int is itself, a numeric string is parsed, a float is truncated
\* towards zero
IntValue(x) ==
    CASE x.t = "float" -> IF Small(x.v) >= 0 THEN Big(Small(x.v) \div 10)
                                              ELSE Big(-((-Small(x.v)) \div 10))
      [] OTHER -> x.v

\* lines 52-56 of api_generate: the first exception raised, "" when none
ParseError(data) ==
    CASE data.t = "none" -> "UnsupportedMediaType"
      [] data.t = "list" -> "AttributeError"
      [] IntError(Get(data.seed, DEFAULT_SEED)) # "" ->
             IntError(Get(data.seed, DEFAULT_SEED))
      [] IntError(Get(data.batch_index, DEFAULT_BATCH_INDEX)) # "" ->
             IntError(Get(data.batch_index, DEFAULT_BATCH_INDEX))
      [] OTHER -> IntError(Get(data.batch_size, DEFAULT_BATCH_SIZE))

\* the default of seed used for batch_index as well
ParsedArgsCopiedDefault(data) ==
    [locale |-> GetLocale(data.locale, DEFAULT_LOCALE),
     seed |-> IntValue(Get(data.seed, DEFAULT_SEED)),
     batch_index |-> IntValue(Get(data.batch_index, DEFAULT_SEED)),
     batch_size |-> IntValue(Get(data.batch_size, DEFAULT_BATCH_SIZE))]

\* lines 53-56 of api_generate: the four locals
ParsedArgs(data) ==
    [locale |-> GetLocale(data.locale, DEFAULT_LOCALE),
     seed |-> IntValue(Get(data.seed, DEFAULT_SEED)),
     batch_index |-> IntValue(Get(data.batch_index, DEFAULT_BATCH_INDEX)),
     batch_size |-> IntValue(Get(data.batch_size, DEFAULT_BATCH_SIZE))]

\* the lower limit taken as 0
BatchSizeInvalidFromZero(bs) == Less(bs, Big(0)) \/ Less(MAX_BATCH_SIZE, bs)
\* the upper limit of the seed taken one too high
SeedInvalidAboveNext(s) == Less(s, Big(0)) \/ Less(Succ(MAX_SEED), s)

\* line 59
BatchSizeInvalid(bs) == Less(bs, MIN_BATCH_SIZE) \/ Less(MAX_BATCH_SIZE, bs)
\* line 62
SeedInvalid(s) == Less(s, Big(0)) \/ Less(MAX_SEED, s)

(***************************************************************************)
(* Rows.  A coordinate is a number in units of 1e-7 degrees, or NULL.      *)
(***************************************************************************)
Coord(x) == [t |-> "float", v |-> x]

\* the digits after the sixth decimal dropped
Round6Floor(x) == 10 * (x \div 10)

\* round(x, 6) of a number given in units of 1e-7: the nearest multiple of 10,
\* a tie going to the even sixth decimal
Round6(x) ==
    LET q == x \div 10
        rem == x % 10
    IN  IF rem < 5 THEN 10 * q
        ELSE IF rem > 5 THEN 10 * (q + 1)
        ELSE IF q % 2 = 0 THEN 10 * q ELSE 10 * (q + 1)

\* round(user[k], 6) raises TypeError on None
RoundError(c) == IF c.t = "float" THEN "" ELSE "TypeError"
RoundCoord(c) == Coord(Round6(c.v))

\* lines 68-70 on one row
RoundUser(user) ==
    [user EXCEPT !.latitude = RoundCoord(user.latitude),
                 !.longitude = RoundCoord(user.longitude)]

RECURSIVE FirstRoundError(_)
FirstRoundError(rows) ==
    IF rows = <<>> THEN ""
    ELSE IF RoundError(Head(rows).latitude) # "" THEN RoundError(Head(rows).latitude)
    ELSE IF RoundError(Head(rows).longitude) # "" THEN RoundError(Head(rows).longitude)
    ELSE FirstRoundError(Tail(rows))

RoundUsers(rows) == [i \in 1..Len(rows) |-> RoundUser(rows[i])]

(***************************************************************************)
(* Inputs                                                                  *)
(***************************************************************************)
Locales == {NoLocale, "xx_XX"}
TooBigSeed == [t |-> "int", v |-> Succ(MAX_SEED)]
Seeds == {Absent, JInt(-1), JInt(0), JInt(2147483647), TooBigSeed,
          JNumStr(42), JBadStr}
BatchIndexes == {Absent, JInt(-1), JBadStr}
BatchSizes == {Absent, JInt(0), JInt(1), JInt(100), JInt(101), JFloat(5), JBadStr}

Object(l, s, bi, bs) ==
    [t |-> "object", locale |-> l, seed |-> s, batch_index |-> bi, batch_size |-> bs]
NoBody == [Object(NoLocale, Absent, Absent, Absent) EXCEPT !.t = "none"]
ListBody == [Object(NoLocale, Absent, Absent, Absent) EXCEPT !.t = "list"]
EmptyObject == Object(NoLocale, Absent, Absent, Absent)

Bodies == {NoBody, ListBody} \cup
          {Object(l, s, bi, bs) : l \in Locales, s \in Seeds,
                                  bi \in BatchIndexes, bs \in BatchSizes}

\* the bodies of the concurrent specification
FewBodies == {NoBody, EmptyObject,
              Object("xx_XX", JInt(0), JInt(7), JInt(100)),
              Object("en_US", JInt(-1), Absent, JInt(1)),
              Object(NoLocale, TooBigSeed, Absent, JInt(101)),
              Object(NoLocale, JBadStr, Absent, JInt(0))}

Row(n, lat, lon) == [name |-> n, latitude |-> lat, longitude |-> lon]
RowDomain == {Row(1, Coord(404127786), Coord(-740059416)),
              Row(2, Coord(-338688006), Coord(1512093000)),
              Row(3, Null, Coord(10))}

SeqsUpTo(S, n) == UNION {[1..k -> S] : k \in 0..n}
RowSeqs == SeqsUpTo(RowDomain, MaxRows)
FewRowSeqs == SeqsUpTo({Row(1, Coord(404127786), Coord(-740059416))}, 1)

\* the rows of the locales table, ordered by code
LocaleRows == <<[locale_code |-> "de_DE", locale_name |-> "German"],
                [locale_code |-> "en_US", locale_name |-> "English"]>>

(***************************************************************************)
(* Responses                                                               *)
(***************************************************************************)
NoEcho == [locale |-> "", seed |-> Big(0), batch_index |-> Big(0),
           batch_size |-> Big(0)]
NoResp == [status |-> 0, error |-> "", users |-> <<>>, echo |-> NoEcho,
           health |-> "", database |-> "", page |-> <<>>, escaped |-> FALSE]

\* jsonify({'error': msg}), code
ErrorResp(code, msg) == [NoResp EXCEPT !.status = code, !.error = msg]
\* lines 72-79
UsersResp(us, l, s, bi, bs) ==
    [NoResp EXCEPT !.status = 200, !.users = us,
                   !.echo = [locale |-> l, seed |-> s, batch_index |-> bi,
                             batch_size |-> bs]]
\* line 93
HealthyResp == [NoResp EXCEPT !.status = 200, !.health = "healthy",
                              !.database = "connected"]
\* the status code left out of the return statement
UnhealthyRespNoCode(msg) == [NoResp EXCEPT !.status = 200, !.health = "unhealthy",
                                           !.error = msg]
\* line 95
UnhealthyResp(msg) == [NoResp EXCEPT !.status = 500, !.health = "unhealthy",
                                     !.error = msg]
\* line 46
PageResp(ls) == [NoResp EXCEPT !.status = 200, !.page = ls]
\* index has no try: the exception leaves the handler
EscapedResp(msg) == [NoResp EXCEPT !.status = 500, !.error = msg, !.escaped = TRUE]

NoAnswer == [connect |-> "", execute |-> "", rows |-> <<>>]

(***************************************************************************)
(* The web service                                                         *)
(***************************************************************************)
WebInit ==
    /\ pc = [r \in Req |-> "idle"]
    /\ route = [r \in Req |-> ""]
    /\ body = [r \in Req |-> NoBody]
    /\ locale = [r \in Req |-> ""]
    /\ seed = [r \in Req |-> Big(0)]
    /\ batch_index = [r \in Req |-> Big(0)]
    /\ batch_size = [r \in Req |-> Big(0)]
    /\ conn = [r \in Req |-> 0]
    /\ users = [r \in Req |-> <<>>]
    /\ resp = [r \in Req |-> NoResp]
    /\ DATABASE_URL \in {"", "postgresql://db"}
    /\ connections = {}
    /\ nextConn = 1
    /\ started = 0
    /\ opened = [r \in Req |-> 0]
    /\ dbCalls = [r \in Req |-> <<>>]
    /\ answer = [r \in Req |-> NoAnswer]

OpenIds == {c.id : c \in connections}

\* a request arrives in slot r
Request(r, bodies) ==
    /\ pc[r] \in {"idle", "done"}
    /\ started < MaxRequests
    /\ started' = started + 1
    /\ \E rt \in {"/", "/api/generate", "/health"} :
          /\ route' = [route EXCEPT ![r] = rt]
          /\ pc' = [pc EXCEPT ![r] = IF rt = "/api/generate" THEN "parse" ELSE "connect"]
          /\ IF rt = "/api/generate"
                THEN \E b \in bodies : body' = [body EXCEPT ![r] = b]
                ELSE body' = [body EXCEPT ![r] = NoBody]
    /\ locale' = [locale EXCEPT ![r] = ""]
    /\ seed' = [seed EXCEPT ![r] = Big(0)]
    /\ batch_index' = [batch_index EXCEPT ![r] = Big(0)]
    /\ batch_size' = [batch_size EXCEPT ![r] = Big(0)]
    /\ conn' = [conn EXCEPT ![r] = 0]
    /\ users' = [users EXCEPT ![r] = <<>>]
    /\ resp' = [resp EXCEPT ![r] = NoResp]
    /\ opened' = [opened EXCEPT ![r] = 0]
    /\ dbCalls' = [dbCalls EXCEPT ![r] = <<>>]
    /\ answer' = [answer EXCEPT ![r] = NoAnswer]
    /\ UNCHANGED <<DATABASE_URL, connections, nextConn>>
    /\ UNCHANGED benchvars

\* one connection kept and handed to every caller while it is open
get_db_connection_shared(r) ==
    /\ DATABASE_URL # ""
    /\ IF connections = {}
          THEN /\ conn' = [conn EXCEPT ![r] = nextConn]
               /\ connections' = {[id |-> nextConn, owner |-> r]}
               /\ nextConn' = nextConn + 1
          ELSE /\ \E c \in connections : conn' = [conn EXCEPT ![r] = c.id]
               /\ UNCHANGED <<connections, nextConn>>
    /\ opened' = [opened EXCEPT ![r] = @ + 1]
    /\ answer' = [answer EXCEPT ![r].connect = "ok"]

\* psycopg2.connect(os.environ["DATABASE_URL"], ...) returns a new connection
get_db_connection(r) ==
    /\ DATABASE_URL # ""
    /\ conn' = [conn EXCEPT ![r] = nextConn]
    /\ connections' = connections \cup {[id |-> nextConn, owner |-> r]}
    /\ nextConn' = nextConn + 1
    /\ opened' = [opened EXCEPT ![r] = @ + 1]
    /\ answer' = [answer EXCEPT ![r].connect = "ok"]

\* what get_db_connection raises: KeyError when the variable is not set,
\* OperationalError when the server refuses
ConnectErrors == IF DATABASE_URL = "" THEN {"KeyError"} ELSE {"OperationalError"}

\* conn.close()
Close(c) == connections' = {x \in connections : x.id # c}

\* cur.execute(...) on the connection held: the statement reaches the server
Execute(r, stmt, args) ==
    dbCalls' = [dbCalls EXCEPT ![r] = Append(@, [conn |-> conn[r], stmt |-> stmt,
                                                   args |-> args])]

\* the status code left out of the return statement
api_generate_except_no_code(e) == ErrorResp(200, e)

\* the except clause of api_generate: every Exception becomes a 500
api_generate_except(e) == ErrorResp(500, e)

\* the handler of slot r leaves by an exception e raised at its current line
Raise(r, e) ==
    /\ pc' = [pc EXCEPT ![r] = "done"]
    /\ resp' = [resp EXCEPT ![r] =
                   CASE route[r] = "/api/generate" -> api_generate_except(e)
                     [] route[r] = "/health" -> UnhealthyResp(e)
                     [] OTHER -> EscapedResp(e)]

\* lines 52-56
api_generate_parse(r) ==
    /\ pc[r] = "parse"
    /\ IF ParseError(body[r]) # ""
          THEN /\ Raise(r, ParseError(body[r]))
               /\ UNCHANGED <<locale, seed, batch_index, batch_size>>
          ELSE /\ locale' = [locale EXCEPT ![r] = ParsedArgs(body[r]).locale]
               /\ seed' = [seed EXCEPT ![r] = ParsedArgs(body[r]).seed]
               /\ batch_index' = [batch_index EXCEPT ![r] = ParsedArgs(body[r]).batch_index]
               /\ batch_size' = [batch_size EXCEPT ![r] = ParsedArgs(body[r]).batch_size]
               /\ pc' = [pc EXCEPT ![r] = "validate"]
               /\ UNCHANGED resp
    /\ UNCHANGED <<route, body, conn, users, DATABASE_URL, connections, nextConn,
                   started, opened, dbCalls, answer>>
    /\ UNCHANGED benchvars

\* the seed check reports nothing and falls through to the call
api_generate_validate_seed_falls_through(r) ==
    /\ pc[r] = "validate"
    /\ IF BatchSizeInvalid(batch_size[r])
          THEN /\ resp' = [resp EXCEPT ![r] = ErrorResp(400, BatchSizeError)]
               /\ pc' = [pc EXCEPT ![r] = "done"]
          ELSE /\ pc' = [pc EXCEPT ![r] = "connect"]
               /\ UNCHANGED resp
    /\ UNCHANGED <<route, body, locale, seed, batch_index, batch_size, conn, users,
                   DATABASE_URL, connections, nextConn, started, opened, dbCalls,
                   answer>>
    /\ UNCHANGED benchvars

\* lines 59-63
api_generate_validate(r) ==
    /\ pc[r] = "validate"
    /\ IF BatchSizeInvalid(batch_size[r])
          THEN /\ resp' = [resp EXCEPT ![r] = ErrorResp(400, BatchSizeError)]
               /\ pc' = [pc EXCEPT ![r] = "done"]
          ELSE IF SeedInvalid(seed[r])
          THEN /\ resp' = [resp EXCEPT ![r] = ErrorResp(400, SeedError)]
               /\ pc' = [pc EXCEPT ![r] = "done"]
          ELSE /\ pc' = [pc EXCEPT ![r] = "connect"]
               /\ UNCHANGED resp
    /\ UNCHANGED <<route, body, locale, seed, batch_index, batch_size, conn, users,
                   DATABASE_URL, connections, nextConn, started, opened, dbCalls,
                   answer>>
    /\ UNCHANGED benchvars

\* line 29 (generate_users), line 19 (get_locales), line 88 (health)
Connect(r) ==
    /\ pc[r] = "connect"
    /\ \/ /\ get_db_connection(r)
          /\ pc' = [pc EXCEPT ![r] = "execute"]
          /\ UNCHANGED resp
       \/ /\ \E e \in ConnectErrors : Raise(r, e)
          /\ answer' = [answer EXCEPT ![r].connect = "error"]
          /\ UNCHANGED <<conn, connections, nextConn, opened>>
    /\ UNCHANGED <<route, body, locale, seed, batch_index, batch_size, users,
                   DATABASE_URL, started, dbCalls>>
    /\ UNCHANGED benchvars

\* the statement the handler of slot r executes
Statement(r) ==
    CASE route[r] = "/api/generate" -> "SELECT * FROM generate_fake_users"
      [] route[r] = "/health" -> "SELECT 1"
      [] OTHER -> "SELECT locale_code, locale_name FROM locales"
Arguments(r) ==
    IF route[r] = "/api/generate"
    THEN <<locale[r], seed[r], batch_index[r], batch_size[r]>>
    ELSE <<>>

\* what a successful statement yields
Yields(r, rowseqs) ==
    CASE route[r] = "/api/generate" -> rowseqs
      [] route[r] = "/health" -> {<<>>}
      [] OTHER -> {LocaleRows, <<>>}

\* lines 30-36 (generate_users), 20-22 (get_locales), 89-90 (health): the
\* statement is sent on the connection held; it fails when that connection is
\* no longer open or when the server reports an error, and the exception leaves
\* the function before its close() calls
ExecuteStep(r, rowseqs) ==
    /\ pc[r] = "execute"
    /\ IF conn[r] \notin OpenIds
          THEN /\ Raise(r, "InterfaceError")
               /\ UNCHANGED <<users, dbCalls, answer>>
          ELSE /\ Execute(r, Statement(r), Arguments(r))
               /\ \/ \E rows \in Yields(r, rowseqs) :
                        /\ users' = [users EXCEPT ![r] = rows]
                        /\ answer' = [answer EXCEPT ![r].execute = "ok", ![r].rows = rows]
                        /\ pc' = [pc EXCEPT ![r] = "close"]
                        /\ UNCHANGED resp
                  \/ /\ Raise(r, "DatabaseError")
                     /\ answer' = [answer EXCEPT ![r].execute = "error"]
                     /\ UNCHANGED users
    /\ UNCHANGED <<route, body, locale, seed, batch_index, batch_size, conn,
                   DATABASE_URL, connections, nextConn, started, opened>>
    /\ UNCHANGED benchvars

\* lines 37-40 (generate_users), 23-25 and 46 (index), 91-93 (health)
CloseStep(r) ==
    /\ pc[r] = "close"
    /\ Close(conn[r])
    /\ CASE route[r] = "/api/generate" ->
               /\ pc' = [pc EXCEPT ![r] = "format"]
               /\ UNCHANGED resp
         [] route[r] = "/health" ->
               /\ pc' = [pc EXCEPT ![r] = "done"]
               /\ resp' = [resp EXCEPT ![r] = HealthyResp]
         [] OTHER ->
               /\ pc' = [pc EXCEPT ![r] = "done"]
               /\ resp' = [resp EXCEPT ![r] = PageResp(users[r])]
    /\ UNCHANGED <<route, body, locale, seed, batch_index, batch_size, conn, users,
                   DATABASE_URL, nextConn, started, opened, dbCalls, answer>>
    /\ UNCHANGED benchvars

\* lines 68-79
api_generate_respond(r) ==
    /\ pc[r] = "format"
    /\ IF FirstRoundError(users[r]) # ""
          THEN /\ Raise(r, FirstRoundError(users[r]))
               /\ UNCHANGED users
          ELSE /\ users' = [users EXCEPT ![r] = RoundUsers(users[r])]
               /\ resp' = [resp EXCEPT ![r] =
                              UsersResp(RoundUsers(users[r]), locale[r], seed[r],
                                        batch_index[r], batch_size[r])]
               /\ pc' = [pc EXCEPT ![r] = "done"]
    /\ UNCHANGED <<route, body, locale, seed, batch_index, batch_size, conn,
                   DATABASE_URL, connections, nextConn, started, opened, dbCalls,
                   answer>>
    /\ UNCHANGED benchvars

\* a connection object no frame refers to any more may be finalized by the
\* interpreter at any later time, which closes it; nothing in a handler does
connection_del ==
    /\ \E c \in connections :
          /\ \A r \in Req : pc[r] \in {"idle", "done"} \/ conn[r] # c.id
          /\ connections' = connections \ {c}
    /\ UNCHANGED <<pc, route, body, locale, seed, batch_index, batch_size, conn, users,
                   resp, DATABASE_URL, nextConn, started, opened, dbCalls, answer>>
    /\ UNCHANGED benchvars

(***************************************************************************)
(* run_benchmark                                                           *)
(***************************************************************************)
BenchInit ==
    /\ bpc = "idle"
    /\ user_counts = <<>>
    /\ idx = 1
    /\ results = <<>>
    /\ clock = 0
    /\ start = 0
    /\ bconn = "none"
    /\ bopened = 0
    /\ blog = <<>>
    /\ berror = ""

CountLists == SeqsUpTo({10000, 50000}, MaxCounts)

RECURSIVE GCD(_, _)
GCD(a, b) == IF b = 0 THEN a ELSE GCD(b, a % b)

\* count / elapsed, as the fraction in lowest terms; elapsed is not zero
Throughput(count, elapsed) ==
    [num |-> count \div GCD(count, elapsed), den |-> elapsed \div GCD(count, elapsed)]

\* run_benchmark(user_counts) is called; line 9
run_benchmark(lists) ==
    /\ bpc = "idle"
    /\ \E l \in lists : user_counts' = l
    /\ results' = <<>>
    /\ bpc' = "connect"
    /\ UNCHANGED <<idx, clock, start, bconn, bopened, blog, berror>>
    /\ UNCHANGED webvars

\* lines 10-11: psycopg.connect(DATABASE_URL) returns a connection or raises
bench_connect ==
    /\ bpc = "connect"
    /\ \/ /\ bconn' = "open"
          /\ bopened' = bopened + 1
          /\ bpc' = "loop"
          /\ UNCHANGED berror
       \/ /\ berror' = "OperationalError"
          /\ bpc' = "raised"
          /\ UNCHANGED <<bconn, bopened>>
    /\ UNCHANGED <<user_counts, idx, results, clock, start, blog>>
    /\ UNCHANGED webvars

\* lines 12-15, and line 29 once the list is exhausted: leaving the with
\* blocks closes the connection
bench_loop ==
    /\ bpc = "loop"
    /\ IF idx > Len(user_counts)
          THEN /\ bconn' = "closed"
               /\ bpc' = "returned"
               /\ UNCHANGED start
          ELSE /\ start' = clock
               /\ bpc' = "execute"
               /\ UNCHANGED bconn
    /\ UNCHANGED <<user_counts, idx, results, clock, bopened, blog, berror>>
    /\ UNCHANGED webvars

\* lines 17-20: the procedure returns at once, or the statement fails and the
\* exception leaves run_benchmark through the with blocks
bench_execute ==
    /\ bpc = "execute"
    /\ blog' = Append(blog, [op |-> "execute", count |-> user_counts[idx]])
    /\ \/ /\ bpc' = "commit"
          /\ UNCHANGED <<berror, bconn>>
       \/ /\ berror' = "DatabaseError"
          /\ bconn' = "closed"
          /\ bpc' = "raised"
    /\ UNCHANGED <<user_counts, idx, results, clock, start, bopened>>
    /\ UNCHANGED webvars

\* line 21
bench_commit ==
    /\ bpc = "commit"
    /\ blog' = Append(blog, [op |-> "commit", count |-> user_counts[idx]])
    /\ bpc' = "measure"
    /\ UNCHANGED <<user_counts, idx, results, clock, start, bconn, bopened, berror>>
    /\ UNCHANGED webvars

\* lines 23-27: the clock is read again, any number of ticks up to MaxTick
\* after the first reading; a division by zero leaves run_benchmark through
\* the with blocks
bench_measure ==
    /\ bpc = "measure"
    /\ \E d \in 0..MaxTick :
          /\ clock' = clock + d
          /\ LET elapsed == clock' - start
                 count == user_counts[idx]
             IN  IF elapsed = 0
                    THEN /\ berror' = "ZeroDivisionError"
                         /\ bconn' = "closed"
                         /\ bpc' = "raised"
                         /\ UNCHANGED <<results, idx>>
                    ELSE /\ results' = Append(results, <<count, elapsed,
                                                         Throughput(count, elapsed)>>)
                         /\ idx' = idx + 1
                         /\ bpc' = "loop"
                         /\ UNCHANGED <<berror, bconn>>
    /\ UNCHANGED <<user_counts, start, bopened, blog>>
    /\ UNCHANGED webvars

(***************************************************************************)
(* Specifications                                                          *)
(***************************************************************************)
Init == WebInit /\ BenchInit

\* one request at a time, every body and every answer of the database
Next ==
    \/ \E r \in {1} :
          \/ Request(r, Bodies)
          \/ api_generate_parse(r)
          \/ api_generate_validate(r)
          \/ Connect(r)
          \/ ExecuteStep(r, RowSeqs)
          \/ CloseStep(r)
          \/ api_generate_respond(r)
    \/ connection_del

Spec == Init /\ [][Next]_vars

\* NumReq requests handled concurrently
NextConc ==
    \/ \E r \in Req :
          \/ Request(r, FewBodies)
          \/ api_generate_parse(r)
          \/ api_generate_validate(r)
          \/ Connect(r)
          \/ ExecuteStep(r, FewRowSeqs)
          \/ CloseStep(r)
          \/ api_generate_respond(r)
    \/ connection_del

SpecConc == Init /\ [][NextConc]_vars

\* one run of the benchmark
NextBench ==
    \/ run_benchmark(CountLists)
    \/ bench_connect
    \/ bench_loop
    \/ bench_execute
    \/ bench_commit
    \/ bench_measure

SpecBench == Init /\ [][NextBench]_vars

(***************************************************************************)
(* Properties.  The predicates below state the claims in their own terms:  *)
(* the ranges, the defaults and the meaning of rounding are written out    *)
(* here, not taken from the definitions of the handlers above.             *)
(***************************************************************************)
Generated(r) == route[r] = "/api/generate" /\ pc[r] = "done"

\* the field is an integer of the request, outside / inside the given range
IsInt(x) == x.t = "int"
Within(x, lo, hi) == ~Less(x.v, lo) /\ ~Less(hi, x.v)
BatchSizeOutside(x) == IsInt(x) /\ ~Within(x, Big(1), Big(100))
SeedOutside(x) == IsInt(x) /\ ~Within(x, Big(0), Big(2147483647))

\* int() accepts the field
Convertible(x) == x.t \in {"absent", "int", "numstr", "float"}

MentionsBatchSize(msg) == msg = "Batch size must be between 1 and 100"
MentionsSeed(msg) == msg = "Seed must be between 0 and 2147483647"

\* the value a field of the request stands for, its default when absent
ValueOf(x, default) == IF x.t = "absent" THEN Big(default) ELSE x.v
LocaleOf(l) == IF l = "<absent>" THEN "en_US" ELSE l

IsObject(b) == b.t = "object"

\* C1 as stated: For every POST /api/generate request whose batch_size is an
\* integer outside [1,100], whatever the values of seed, locale and
\* batch_index, the response is 400 with an error that mentions batch size.
C1_AsStated ==
    \A r \in Req :
        (Generated(r) /\ IsObject(body[r]) /\ BatchSizeOutside(body[r].batch_size))
            => (resp[r].status = 400 /\ MentionsBatchSize(resp[r].error))

\* C1 amended: For every POST /api/generate request whose batch_size is an
\* integer outside [1,100] and whose seed and batch_index are each absent or
\* convertible to an integer (whatever their values and the locale), the
\* response is 400 with an error that mentions batch size.
C1_BatchSizeRejected ==
    \A r \in Req :
        (/\ Generated(r) /\ IsObject(body[r])
         /\ BatchSizeOutside(body[r].batch_size)
         /\ Convertible(body[r].seed) /\ Convertible(body[r].batch_index))
            => (resp[r].status = 400 /\ MentionsBatchSize(resp[r].error))

\* a request with batch_size 0 and a seed that is itself out of range was
\* answered 400
C1_Witness ==
    \E r \in Req :
        /\ Generated(r) /\ IsObject(body[r])
        /\ body[r].batch_size = JInt(0) /\ SeedOutside(body[r].seed)
        /\ body[r].locale = "xx_XX" /\ body[r].batch_index = JInt(-1)
        /\ resp[r].status = 400

\* C2 as stated: For every POST /api/generate request whose seed is an integer
\* outside [0, 2147483647], whatever the value of batch_size (also one outside
\* [1,100]), the response is 400 with an error that mentions seed.
C2_AsStated ==
    \A r \in Req :
        (Generated(r) /\ IsObject(body[r]) /\ SeedOutside(body[r].seed))
            => (resp[r].status = 400 /\ MentionsSeed(resp[r].error))

\* the integer a convertible field converts to lies in [1,100]
ConvertsIntoBatchRange(x) ==
    \/ x.t = "absent"
    \/ x.t \in {"int", "numstr"} /\ Within(x, Big(1), Big(100))
    \/ x.t = "float" /\ Within(x, Big(10), Big(1009))

\* C2 amended: For every POST /api/generate request whose seed is an integer
\* outside [0, 2147483647], whose batch_size is absent or converts to an
\* integer in [1,100] and whose batch_index is absent or convertible to an
\* integer, the response is 400 with an error that mentions seed; when the
\* batch_size is out of range as well the response is still 400, but its error
\* mentions batch size and not seed.
C2_SeedRejected ==
    \A r \in Req :
        (Generated(r) /\ IsObject(body[r]) /\ SeedOutside(body[r].seed)
         /\ Convertible(body[r].batch_index))
            => /\ ConvertsIntoBatchRange(body[r].batch_size)
                    => (resp[r].status = 400 /\ MentionsSeed(resp[r].error))
               /\ BatchSizeOutside(body[r].batch_size)
                    => (resp[r].status = 400 /\ MentionsBatchSize(resp[r].error)
                        /\ ~MentionsSeed(resp[r].error))

\* a request with seed 2147483648 and batch_size 100 was answered 400
C2_Witness ==
    \E r \in Req :
        /\ Generated(r) /\ IsObject(body[r])
        /\ body[r].seed = TooBigSeed /\ body[r].batch_size = JInt(100)
        /\ resp[r].status = 400 /\ MentionsSeed(resp[r].error)

ProcedureCalls(r) ==
    {i \in 1..Len(dbCalls[r]) : dbCalls[r][i].stmt = "SELECT * FROM generate_fake_users"}

\* C3: Validation precedes any database use: a request answered 400 opened no
\* connection and sent no statement, and every call of generate_fake_users
\* carries a batch_size in [1,100] and a seed in [0, 2147483647].
C3_ValidationBeforeDatabase ==
    \A r \in Req :
        /\ (route[r] = "/api/generate" /\ resp[r].status = 400)
              => (opened[r] = 0 /\ dbCalls[r] = <<>> /\ answer[r] = NoAnswer)
        /\ (route[r] = "/api/generate" /\ pc[r] \in {"parse", "validate"})
              => (opened[r] = 0 /\ dbCalls[r] = <<>>)
        /\ \A i \in ProcedureCalls(r) :
              /\ ~Less(dbCalls[r][i].args[4], Big(1))
              /\ ~Less(Big(100), dbCalls[r][i].args[4])
              /\ ~Less(dbCalls[r][i].args[2], Big(0))
              /\ ~Less(Big(2147483647), dbCalls[r][i].args[2])

\* a request with a well-formed body was answered 400 for its seed while the
\* database was reachable
C3_Witness ==
    \E r \in Req :
        /\ Generated(r) /\ resp[r].status = 400 /\ MentionsSeed(resp[r].error)
        /\ DATABASE_URL # ""

\* y is x rounded to 6 decimals: the multiple of 10 nearest to x
IsRounded6(x, y) == y % 10 = 0 /\ y - x <= 5 /\ x - y <= 5

\* us is rows, in order, with only the coordinates rounded
RowsRounded(us, rows) ==
    /\ Len(us) = Len(rows)
    /\ \A i \in 1..Len(rows) :
          /\ us[i].name = rows[i].name
          /\ rows[i].latitude.t = "float" /\ us[i].latitude.t = "float"
          /\ rows[i].longitude.t = "float" /\ us[i].longitude.t = "float"
          /\ IsRounded6(rows[i].latitude.v, us[i].latitude.v)
          /\ IsRounded6(rows[i].longitude.v, us[i].longitude.v)

Numeric(rows) ==
    \A i \in 1..Len(rows) : rows[i].latitude.t = "float" /\ rows[i].longitude.t = "float"

\* a valid request: a JSON object whose integer fields are integers or absent,
\* with batch_size in [1,100] and seed in [0, 2147483647]
ValidRequest(b) ==
    /\ IsObject(b)
    /\ b.seed.t \in {"absent", "int"} /\ b.batch_index.t \in {"absent", "int"}
    /\ b.batch_size.t \in {"absent", "int"}
    /\ ~Less(ValueOf(b.seed, 12345), Big(0))
    /\ ~Less(Big(2147483647), ValueOf(b.seed, 12345))
    /\ ~Less(ValueOf(b.batch_size, 10), Big(1))
    /\ ~Less(Big(100), ValueOf(b.batch_size, 10))

ProcedureSucceeded(r) == answer[r].connect = "ok" /\ answer[r].execute = "ok"

OneRoundTripAndRows(r) ==
    /\ resp[r].status = 200
    /\ opened[r] = 1 /\ Len(dbCalls[r]) = 1
    /\ RowsRounded(resp[r].users, answer[r].rows)
    /\ resp[r].echo.locale = LocaleOf(body[r].locale)
    /\ resp[r].echo.seed = ValueOf(body[r].seed, 12345)
    /\ resp[r].echo.batch_index = ValueOf(body[r].batch_index, 0)
    /\ resp[r].echo.batch_size = ValueOf(body[r].batch_size, 10)

\* C4 as stated: For every valid request against a database whose procedure
\* call succeeds, api_generate makes exactly one database round trip and
\* answers 200 with the rows the procedure yielded, in order, only the
\* coordinates rounded, and with the request's locale, seed, batch_index and
\* batch_size.
C4_AsStated ==
    \A r \in Req :
        (Generated(r) /\ ValidRequest(body[r]) /\ ProcedureSucceeded(r))
            => OneRoundTripAndRows(r)

\* C4 amended: For every valid request (a JSON object whose seed, batch_index
\* and batch_size are each absent or an integer, batch_size in [1,100], seed in
\* [0, 2147483647]) against a database whose procedure call succeeds and
\* yields rows whose latitude and longitude are all numbers,
\* api_generate makes exactly one database round trip and answers 200 with the
\* rows the procedure yielded, in order, only the coordinates rounded, and with
\* the request's locale, seed, batch_index and batch_size.
C4_RowsReturned ==
    \A r \in Req :
        (Generated(r) /\ ValidRequest(body[r]) /\ ProcedureSucceeded(r)
         /\ Numeric(answer[r].rows))
            => OneRoundTripAndRows(r)

\* a valid request was answered 200 with two rows, the first with a latitude
\* that rounding changed
C4_Witness ==
    \E r \in Req :
        /\ Generated(r) /\ ValidRequest(body[r]) /\ ProcedureSucceeded(r)
        /\ resp[r].status = 200 /\ Len(resp[r].users) = 2
        /\ resp[r].users[1].latitude # answer[r].rows[1].latitude
        /\ resp[r].users[1] # resp[r].users[2]

\* C5: Each field absent from the body takes its default independently of the
\* others (locale "en_US", seed 12345, batch_index 0, batch_size 10); a request
\* with an empty JSON object passes validation and calls the procedure with
\* ("en_US", 12345, 0, 10); batch_index and locale reach the procedure
\* unchecked.
C5_Defaults ==
    \A r \in Req :
        /\ \A i \in ProcedureCalls(r) :
              LET a == dbCalls[r][i].args
              IN  /\ body[r].locale = "<absent>" => a[1] = "en_US"
                  /\ body[r].seed.t = "absent" => a[2] = Big(12345)
                  /\ body[r].batch_index.t = "absent" => a[3] = Big(0)
                  /\ body[r].batch_size.t = "absent" => a[4] = Big(10)
                  /\ body[r].locale # "<absent>" => a[1] = body[r].locale
                  /\ IsInt(body[r].batch_index) => a[3] = body[r].batch_index.v
        /\ (Generated(r) /\ body[r] = EmptyObject)
              => /\ resp[r].status # 400
                 /\ answer[r].connect = "ok"
                       => (Len(dbCalls[r]) = 1 /\
                           dbCalls[r][1].args = <<"en_US", Big(12345), Big(0), Big(10)>>)
        /\ (Generated(r) /\ resp[r].status = 400)
              => ~(ConvertsIntoBatchRange(body[r].batch_size) /\
                   Within([t |-> "int", v |-> ValueOf(body[r].seed, 12345)],
                          Big(0), Big(2147483647)))

\* a request with an empty object was answered 200 after one procedure call
C5_Witness ==
    \E r \in Req :
        /\ Generated(r) /\ body[r] = EmptyObject
        /\ ProcedureCalls(r) # {} /\ resp[r].status = 200

\* something other than a range violation went wrong while the request was
\* handled
OtherFailure(r) ==
    \/ ~IsObject(body[r])
    \/ ~Convertible(body[r].seed)
    \/ ~Convertible(body[r].batch_index)
    \/ ~Convertible(body[r].batch_size)
    \/ answer[r].connect = "error"
    \/ answer[r].execute = "error"
    \/ answer[r].execute = "ok" /\ ~Numeric(answer[r].rows)

\* C6: Every failure of api_generate other than the two range violations gives
\* 500 with an error field; api_generate always answers 200, 400 or 500, no
\* exception leaves it, and it never answers 200 when the procedure call
\* failed.
C6_CatchAll ==
    \A r \in Req :
        Generated(r) =>
            /\ resp[r].status \in {200, 400, 500}
            /\ ~resp[r].escaped
            /\ OtherFailure(r) => (resp[r].status = 500 /\ resp[r].error # "")
            /\ resp[r].status = 200 => ProcedureSucceeded(r)
            /\ resp[r].status # 200 => resp[r].error # ""

\* the procedure call succeeded, a row had no latitude, and the answer was 500
C6_Witness ==
    \E r \in Req :
        /\ Generated(r) /\ ProcedureSucceeded(r) /\ ~Numeric(answer[r].rows)
        /\ resp[r].status = 500

\* C7: GET /health answers 200 {healthy, connected} exactly when the connection
\* was opened and SELECT 1 succeeded, and 500 {unhealthy, error} on any
\* failure; no exception leaves it.
C7_Health ==
    \A r \in Req :
        (route[r] = "/health" /\ pc[r] = "done") =>
            /\ ~resp[r].escaped
            /\ \/ /\ ProcedureSucceeded(r)
                  /\ resp[r].status = 200 /\ resp[r].health = "healthy"
                  /\ resp[r].database = "connected" /\ resp[r].error = ""
               \/ /\ ~ProcedureSucceeded(r)
                  /\ resp[r].status = 500 /\ resp[r].health = "unhealthy"
                  /\ resp[r].database = "" /\ resp[r].error # ""

\* the health check connected, its query failed, and it answered
C7_Witness ==
    \E r \in Req :
        /\ route[r] = "/health" /\ pc[r] = "done"
        /\ answer[r].connect = "ok" /\ answer[r].execute = "error"

\* C8 as stated: Every handler closes every connection it opened before it
\* returns, on every path: once all handlers have returned, no database
\* connection is open.
C8_AsStated ==
    (\A r \in Req : pc[r] \in {"idle", "done"}) => connections = {}

\* the calls and commits alternate, one pair per batch size, in input order
Alternates(log, counts) ==
    /\ Len(log) = 2 * Len(counts)
    /\ \A i \in 1..Len(counts) :
          /\ log[2 * i - 1] = [op |-> "execute", count |-> counts[i]]
          /\ log[2 * i] = [op |-> "commit", count |-> counts[i]]

\* C9 as stated: run_benchmark, given a list of batch sizes and a procedure
\* that returns immediately (the elapsed time may be zero), returns one tuple
\* (count, elapsed, throughput) per batch size in input order, with
\* elapsed >= 0 and throughput = count / elapsed, the calls made one after the
\* other on one connection opened once, each followed by a commit.
C9_AsStated ==
    (bpc \in {"returned", "raised"} /\ berror \notin {"OperationalError", "DatabaseError"})
        => /\ bpc = "returned"
           /\ Len(results) = Len(user_counts)
           /\ \A i \in 1..Len(results) :
                 /\ results[i][1] = user_counts[i]
                 /\ results[i][2] >= 0
                 /\ results[i][3].num * results[i][2] = results[i][3].den * results[i][1]
           /\ bopened = 1
           /\ Alternates(blog, user_counts)

\* C10: Under any interleaving of concurrent requests, a connection is used
\* only by the request that opened it, and the response to /api/generate is
\* determined by the request's own body and the database's answer to its own
\* call: two requests with the same body and the same answer get the same
\* response.
C10_Isolation ==
    /\ \A r \in Req :
          pc[r] \in {"execute", "close"} =>
              /\ [id |-> conn[r], owner |-> r] \in connections
              /\ \A i \in 1..Len(dbCalls[r]) : dbCalls[r][i].conn = conn[r]
    /\ \A c, d \in connections : c.id = d.id => c.owner = d.owner
    /\ \A r, q \in Req :
          (Generated(r) /\ Generated(q) /\ body[r] = body[q] /\ answer[r] = answer[q])
              => resp[r] = resp[q]
    /\ \A r \in Req :
          Generated(r) /\ answer[r].connect = "ok" => answer[r].execute # ""

\* two requests hold a connection each at the same time
C10_Witness ==
    \E r, q \in Req :
        /\ r # q
        /\ pc[r] = "execute" /\ pc[q] = "close"
        /\ route[r] = "/api/generate" /\ route[q] = "/api/generate"


====
